---- MODULE Spec2Model ----
(***************************************************************************)
(* Model of the notes widget of src/project/src/App.tsx: the in-memory     *)
(* note collection, the selected note and edit flag, and the localStorage  *)
(* slot 'notes' that every change of the collection is written to.         *)
(***************************************************************************)
EXTENDS Integers, Sequences, FiniteSets, TLC

\* Bounds of the model.
MaxNotes == 3
MaxClock == 2

\* Text the user can type into the title input and the content textarea.
Titles == {"New Note", "T"}
Contents == {"", "c"}

VARIABLES
    notes,        \* useState<Note[]>: the committed collection
    activeNote,   \* useState<Note | null>: the selected note / the draft
    isEditing,    \* useState(false)
    storage,      \* localStorage slot 'notes'
    clock,        \* the millisecond clock read by Date.now() and new Date()
    pc,           \* "idle": mounted and waiting for an event; "crashed": render threw
    lastOp,       \* history: the handler that ran last (and the list index it was given)
    editBase      \* history: the collection at the Edit click, kept while only draft
                  \* edits (and their cancel) followed; <<>> otherwise

vars == <<notes, activeNote, isEditing, storage, clock, pc, lastOp, editBase>>

\* activeNote === null
Null == [type |-> "null"]

\* A createdAt value: a Date object, or the ISO string JSON.stringify turns it into.
\* Both carry the instant in whole milliseconds.
DateOf(ms) == [type |-> "Date", ms |-> ms]
\* Variant: the timestamp is written with a coarser precision than the clock's.
toISOString_Coarse(d) == [type |-> "string", ms |-> (d.ms \div 2) * 2]

toISOString(d) == [type |-> "string", ms |-> d.ms]

\* Date.now().toString()
NowString(ms) == ToString(ms)

\* The storage slot: localStorage.getItem returns null, or the stored text.
Absent == [state |-> "absent"]
Malformed == [state |-> "malformed"]

\* JSON.stringify of one note: a Date is written through toJSON as an ISO string,
\* a createdAt that already is a string is written as it is.
NoteToJSON(n) ==
    [id |-> n.id, title |-> n.title, content |-> n.content,
     createdAt |-> IF n.createdAt.type = "Date" THEN toISOString(n.createdAt)
                   ELSE n.createdAt]

JSONstringify(ns) ==
    [state |-> "json", text |-> [i \in DOMAIN ns |-> NoteToJSON(ns[i])]]

\* JSON.parse: no reviver, so createdAt stays the string that was stored.
JSONparse(slot) == [i \in DOMAIN slot.text |-> slot.text[i]]

\* useState initializer: savedNotes ? JSON.parse(savedNotes) : []
LoadNotes(slot) == IF slot.state = "absent" THEN <<>> ELSE JSONparse(slot)

\* notes.find(note => note.id === id) || null
FindIndex(ns, id) ==
    IF \E i \in DOMAIN ns : ns[i].id = id
    THEN CHOOSE i \in DOMAIN ns : ns[i].id = id /\ \A j \in 1..(i-1) : ns[j].id # id
    ELSE 0

FindNote(ns, id) == IF FindIndex(ns, id) = 0 THEN Null ELSE ns[FindIndex(ns, id)]

\* notes.map(note => note.id === updatedNote.id ? updatedNote : note)
MapUpdate(ns, updatedNote) ==
    [i \in DOMAIN ns |-> IF ns[i].id = updatedNote.id THEN updatedNote ELSE ns[i]]

\* notes.filter(note => note.id !== id)
FilterOut(ns, id) == SelectSeq(ns, LAMBDA n : n.id # id)

\* The draft being edited differs from every committed entry.
Dirty == isEditing /\ activeNote # Null /\ \A i \in DOMAIN notes : notes[i] # activeNote

\* History record of a handler: its name, the list index it was given,
\* whether it was invoked over an unsaved draft, and whether the handler
\* before it was a delete.
Op(name, arg) ==
    [op |-> name, arg |-> arg, dirty |-> Dirty, afterDelete |-> lastOp.op = "delete"]

Start == [op |-> "start", arg |-> 0, dirty |-> FALSE, afterDelete |-> FALSE]

\* History of one edit session: a draft edit happened since the Edit click.
Edited(base) == IF base = <<>> THEN <<>> ELSE <<[base[1] EXCEPT !.edited = TRUE]>>

\* First page load: the slot is absent, or holds text JSON.parse rejects.
Init ==
    /\ clock = 0
    /\ activeNote = Null
    /\ isEditing = FALSE
    /\ editBase = <<>>
    /\ lastOp = Start
    /\ \E slot \in {Absent, Malformed} :
          IF slot.state = "malformed"
          THEN /\ pc = "crashed"
               /\ notes = <<>>
               /\ storage = slot
          ELSE /\ pc = "idle"
               /\ notes = LoadNotes(slot)
               /\ storage = JSONstringify(LoadNotes(slot))

\* The page is loaded again: the component state is rebuilt from the slot and
\* the mount effect writes the collection back.
Reload ==
    /\ activeNote' = Null
    /\ isEditing' = FALSE
    /\ editBase' = <<>>
    /\ lastOp' = Op("start", 0)
    /\ IF storage.state = "malformed"
       THEN /\ pc' = "crashed"
            /\ notes' = <<>>
            /\ storage' = storage
       ELSE /\ pc' = "idle"
            /\ notes' = LoadNotes(storage)
            /\ storage' = JSONstringify(LoadNotes(storage))
    /\ UNCHANGED clock

\* Time passes between two events.
Tick ==
    /\ clock < MaxClock
    /\ clock' = clock + 1
    /\ UNCHANGED <<notes, activeNote, isEditing, storage, pc, lastOp, editBase>>

\* Variant: the new note is appended instead of prepended.
CreateNewNote_Append ==
    /\ pc = "idle"
    /\ Len(notes) < MaxNotes
    /\ \E d \in {0, 1} :
          /\ clock + d <= MaxClock
          /\ clock' = clock + d
          /\ LET newNote == [id |-> NowString(clock), title |-> "New Note",
                             content |-> "", createdAt |-> DateOf(clock + d)]
             IN  /\ notes' = notes \o <<newNote>>
                 /\ activeNote' = newNote
    /\ isEditing' = TRUE
    /\ storage' = JSONstringify(notes')
    /\ editBase' = <<>>
    /\ lastOp' = Op("create", 0)
    /\ UNCHANGED pc

\* Variant: creating a note first commits the draft that was being edited.
CreateNewNote_CommitsDraft ==
    /\ pc = "idle"
    /\ Len(notes) < MaxNotes
    /\ \E d \in {0, 1} :
          /\ clock + d <= MaxClock
          /\ clock' = clock + d
          /\ LET newNote == [id |-> NowString(clock), title |-> "New Note",
                             content |-> "", createdAt |-> DateOf(clock + d)]
             IN  /\ notes' = <<newNote>> \o
                        (IF isEditing /\ activeNote # Null
                         THEN MapUpdate(notes, activeNote) ELSE notes)
                 /\ activeNote' = newNote
    /\ isEditing' = TRUE
    /\ storage' = JSONstringify(notes')
    /\ editBase' = <<>>
    /\ lastOp' = Op("create", 0)
    /\ UNCHANGED pc

\* createNewNote, then the persistence effect.  Date.now() and new Date() are
\* two reads of the clock; d is the time that passes between them.
CreateNewNote ==
    /\ pc = "idle"
    /\ Len(notes) < MaxNotes
    /\ \E d \in {0, 1} :
          /\ clock + d <= MaxClock
          /\ clock' = clock + d
          /\ LET newNote == [id |-> NowString(clock), title |-> "New Note",
                             content |-> "", createdAt |-> DateOf(clock + d)]
             IN  /\ notes' = <<newNote>> \o notes
                 /\ activeNote' = newNote
    /\ isEditing' = TRUE
    /\ storage' = JSONstringify(notes')
    /\ editBase' = <<>>
    /\ lastOp' = Op("create", 0)
    /\ UNCHANGED pc

\* Variant: the click selects the entry but does not leave edit mode.
SelectNote_KeepEditing(i) ==
    /\ pc = "idle"
    /\ i \in DOMAIN notes
    /\ activeNote' = notes[i]
    /\ editBase' = <<>>
    /\ lastOp' = Op("select", i)
    /\ UNCHANGED <<notes, isEditing, storage, clock, pc>>

\* List item onClick on the i-th entry.
SelectNote(i) ==
    /\ pc = "idle"
    /\ i \in DOMAIN notes
    /\ activeNote' = notes[i]
    /\ isEditing' = FALSE
    /\ editBase' = <<>>
    /\ lastOp' = Op("select", i)
    /\ UNCHANGED <<notes, storage, clock, pc>>

\* Variant: the Edit button is offered whenever a note is active.
BeginEdit_Always ==
    /\ pc = "idle"
    /\ activeNote # Null
    /\ isEditing' = TRUE
    /\ editBase' = <<[notes |-> notes, edited |-> FALSE]>>
    /\ lastOp' = Op("beginEdit", 0)
    /\ UNCHANGED <<notes, activeNote, storage, clock, pc>>

\* Edit button, rendered when a note is active and not being edited.
BeginEdit ==
    /\ pc = "idle"
    /\ activeNote # Null
    /\ ~isEditing
    /\ isEditing' = TRUE
    /\ editBase' = <<[notes |-> notes, edited |-> FALSE]>>
    /\ lastOp' = Op("beginEdit", 0)
    /\ UNCHANGED <<notes, activeNote, storage, clock, pc>>

\* Variant: typing in the title writes through to the committed entry.
EditTitle_WriteThrough(v) ==
    /\ pc = "idle"
    /\ activeNote # Null
    /\ isEditing
    /\ v # activeNote.title
    /\ activeNote' = [activeNote EXCEPT !.title = v]
    /\ notes' = MapUpdate(notes, activeNote')
    /\ storage' = JSONstringify(notes')
    /\ lastOp' = Op("editDraft", 0)
    /\ editBase' = Edited(editBase)
    /\ UNCHANGED <<isEditing, clock, pc>>

\* Title input onChange, rendered while editing.
EditTitle(v) ==
    /\ pc = "idle"
    /\ activeNote # Null
    /\ isEditing
    /\ v # activeNote.title
    /\ activeNote' = [activeNote EXCEPT !.title = v]
    /\ lastOp' = Op("editDraft", 0)
    /\ editBase' = Edited(editBase)
    /\ UNCHANGED <<notes, isEditing, storage, clock, pc>>

\* Variant: the content change builds the draft anew and loses the typed title.
EditContent_DropsTitle(v) ==
    /\ pc = "idle"
    /\ activeNote # Null
    /\ isEditing
    /\ v # activeNote.content
    /\ activeNote' = [activeNote EXCEPT !.content = v, !.title = ""]
    /\ lastOp' = Op("editDraft", 0)
    /\ editBase' = Edited(editBase)
    /\ UNCHANGED <<notes, isEditing, storage, clock, pc>>

\* Content textarea onChange, rendered while editing.
EditContent(v) ==
    /\ pc = "idle"
    /\ activeNote # Null
    /\ isEditing
    /\ v # activeNote.content
    /\ activeNote' = [activeNote EXCEPT !.content = v]
    /\ lastOp' = Op("editDraft", 0)
    /\ editBase' = Edited(editBase)
    /\ UNCHANGED <<notes, isEditing, storage, clock, pc>>

\* Variant: save prepends the draft and leaves the old entry in place.
UpdateNote_AddsCopy ==
    /\ pc = "idle"
    /\ activeNote # Null
    /\ isEditing
    /\ notes' = <<activeNote>> \o notes
    /\ activeNote' = activeNote
    /\ isEditing' = FALSE
    /\ storage' = JSONstringify(notes')
    /\ editBase' = <<>>
    /\ lastOp' = Op("save", 0)
    /\ UNCHANGED <<clock, pc>>

\* Variant: the collection is replaced but the slot is not rewritten.
UpdateNote_NoPersist ==
    /\ pc = "idle"
    /\ activeNote # Null
    /\ isEditing
    /\ notes' = MapUpdate(notes, activeNote)
    /\ activeNote' = activeNote
    /\ isEditing' = FALSE
    /\ editBase' = <<>>
    /\ lastOp' = Op("save", 0)
    /\ UNCHANGED <<storage, clock, pc>>

\* Save button: updateNote(activeNote), then the persistence effect.
UpdateNote ==
    /\ pc = "idle"
    /\ activeNote # Null
    /\ isEditing
    /\ notes' = MapUpdate(notes, activeNote)
    /\ activeNote' = activeNote
    /\ isEditing' = FALSE
    /\ storage' = JSONstringify(notes')
    /\ editBase' = <<>>
    /\ lastOp' = Op("save", 0)
    /\ UNCHANGED <<clock, pc>>

\* Variant: cancel leaves edit mode but keeps showing the draft.
CancelEdit_KeepDraft ==
    /\ pc = "idle"
    /\ activeNote # Null
    /\ isEditing
    /\ activeNote' = activeNote
    /\ isEditing' = FALSE
    /\ lastOp' = Op("cancelEdit", 0)
    /\ UNCHANGED <<notes, storage, clock, pc, editBase>>

\* Cancel button.
CancelEdit ==
    /\ pc = "idle"
    /\ activeNote # Null
    /\ isEditing
    /\ activeNote' = FindNote(notes, activeNote.id)
    /\ isEditing' = FALSE
    /\ lastOp' = Op("cancelEdit", 0)
    /\ UNCHANGED <<notes, storage, clock, pc, editBase>>

\* Variant: deleting the active note leaves the selection on it.
DeleteNote_KeepSelection(i) ==
    /\ pc = "idle"
    /\ i \in DOMAIN notes
    /\ notes' = FilterOut(notes, notes[i].id)
    /\ storage' = JSONstringify(notes')
    /\ editBase' = <<>>
    /\ lastOp' = Op("delete", i)
    /\ UNCHANGED <<activeNote, isEditing, clock, pc>>

\* Variant: deleting the active note moves the selection but keeps edit mode.
DeleteNote_KeepEditing(i) ==
    /\ pc = "idle"
    /\ i \in DOMAIN notes
    /\ LET id == notes[i].id
           filteredNotes == FilterOut(notes, id)
       IN  /\ notes' = filteredNotes
           /\ IF activeNote # Null /\ activeNote.id = id
              THEN activeNote' = IF Len(filteredNotes) > 0 THEN filteredNotes[1] ELSE Null
              ELSE UNCHANGED activeNote
    /\ storage' = JSONstringify(notes')
    /\ editBase' = <<>>
    /\ lastOp' = Op("delete", i)
    /\ UNCHANGED <<isEditing, clock, pc>>

\* Delete button of the i-th entry: deleteNote(note.id), then the persistence effect.
DeleteNote(i) ==
    /\ pc = "idle"
    /\ i \in DOMAIN notes
    /\ LET id == notes[i].id
           filteredNotes == FilterOut(notes, id)
       IN  /\ notes' = filteredNotes
           /\ IF activeNote # Null /\ activeNote.id = id
              THEN /\ activeNote' = IF Len(filteredNotes) > 0 THEN filteredNotes[1] ELSE Null
                   /\ isEditing' = FALSE
              ELSE UNCHANGED <<activeNote, isEditing>>
    /\ storage' = JSONstringify(notes')
    /\ editBase' = <<>>
    /\ lastOp' = Op("delete", i)
    /\ UNCHANGED <<clock, pc>>

Next ==
    \/ Reload
    \/ Tick
    \/ CreateNewNote
    \/ \E i \in 1..MaxNotes : SelectNote(i)
    \/ BeginEdit
    \/ \E v \in Titles : EditTitle(v)
    \/ \E v \in Contents : EditContent(v)
    \/ UpdateNote
    \/ CancelEdit
    \/ \E i \in 1..MaxNotes : DeleteNote(i)

Spec == Init /\ [][Next]_vars

----------------------------------------------------------------------------
\* Helpers of the properties.

\* The collection ns without its i-th entry.
RemoveAt(ns, i) == SubSeq(ns, 1, i - 1) \o SubSeq(ns, i + 1, Len(ns))

\* Two collections agree entry by entry on id, title and content, and on the
\* instant of createdAt, whichever of Date or ISO string represents it.
SameCollection(a, b) ==
    /\ Len(a) = Len(b)
    /\ \A i \in DOMAIN a :
          /\ a[i].id = b[i].id
          /\ a[i].title = b[i].title
          /\ a[i].content = b[i].content
          /\ a[i].createdAt.ms = b[i].createdAt.ms

\* C1: no two entries of the note collection have the same id.
C1_UniqueIds ==
    \A i, j \in DOMAIN notes : i # j => notes[i].id # notes[j].id

\* C2: save replaces exactly one entry, the one with the draft's id, by the
\* draft; every other entry, the length and the order are unchanged, and the
\* controller ends up viewing the saved draft.
C2_SaveReplacesOne ==
    [][UpdateNote =>
          /\ \E i \in DOMAIN notes :
                /\ notes[i].id = activeNote.id
                /\ Len(notes') = Len(notes)
                /\ notes'[i] = activeNote
                /\ \A j \in DOMAIN notes : j # i => notes'[j] = notes[j]
          /\ activeNote' = activeNote
          /\ ~isEditing']_vars

\* C3: cancelEdit after beginEdit and any number of draft edits leaves the
\* collection as it was at beginEdit; the active note is then the committed
\* entry with the draft's id and editing is false.
C3_CancelRestores ==
    [][(CancelEdit /\ editBase # <<>>) =>
          /\ notes' = editBase[1].notes
          /\ ~isEditing'
          /\ activeNote' # Null
          /\ activeNote'.id = activeNote.id
          /\ \E i \in DOMAIN notes' : notes'[i] = activeNote']_vars

C3_Witness ==
    /\ lastOp.op = "cancelEdit"
    /\ lastOp.dirty
    /\ editBase # <<>>
    /\ editBase[1].edited
    /\ notes = editBase[1].notes
    /\ Len(notes) >= 2
    /\ ~isEditing
    /\ \E i \in DOMAIN notes : notes[i] = activeNote

\* C4: deleting the active note leaves no selection when it was the only
\* note, and otherwise selects the first remaining entry; editing is false.
C4_DeleteActive ==
    [][\A i \in DOMAIN notes :
          (DeleteNote(i) /\ activeNote # Null /\ notes[i].id = activeNote.id) =>
             /\ ~isEditing'
             /\ IF Len(notes) = 1
                THEN activeNote' = Null
                ELSE Len(notes') > 0 /\ activeNote' = notes'[1]]_vars

\* C5: deleting a note that is not the active one leaves the active note and
\* the editing flag unchanged and removes only that entry.
C5_DeleteOther ==
    [][\A i \in DOMAIN notes :
          (DeleteNote(i) /\ (activeNote = Null \/ notes[i].id # activeNote.id)) =>
             /\ activeNote' = activeNote
             /\ isEditing' = isEditing
             /\ notes' = RemoveAt(notes, i)]_vars

\* C6: editing implies an active note is set.
C6_EditingHasNote == isEditing => activeNote # Null

C6_Witness ==
    /\ isEditing
    /\ activeNote # Null
    /\ lastOp.op = "beginEdit"

\* C7: create prepends one note titled "New Note" with empty content, keeps
\* the previous entries in order after it, and leaves the controller editing
\* a draft equal to the new note.
C7_CreatePrepends ==
    [][CreateNewNote =>
          /\ Len(notes') = Len(notes) + 1
          /\ notes'[1].title = "New Note"
          /\ notes'[1].content = ""
          /\ Tail(notes') = notes
          /\ isEditing'
          /\ activeNote' = notes'[1]]_vars

C7_Witness ==
    /\ lastOp.op = "create"
    /\ lastOp.dirty
    /\ Len(notes) >= 2
    /\ isEditing
    /\ activeNote = notes[1]

\* C8: clicking a list entry, also over an unsaved draft, shows that committed
\* entry with editing false and leaves the collection unchanged.
C8_SelectViews ==
    [][\A i \in DOMAIN notes :
          SelectNote(i) =>
             /\ activeNote' = notes[i]
             /\ ~isEditing'
             /\ notes' = notes
             /\ \E j \in DOMAIN notes' : notes'[j] = activeNote']_vars

C8_Witness ==
    /\ lastOp.op = "select"
    /\ lastOp.dirty
    /\ ~isEditing
    /\ activeNote = notes[lastOp.arg]

\* C9: whenever the application is idle, the slot 'notes' holds the
\* serialization of the in-memory collection, also right after the first load.
C9_SlotInSync == pc = "idle" => storage = JSONstringify(notes)

C9_Witness ==
    /\ pc = "idle"
    /\ lastOp.op = "save"
    /\ lastOp.dirty
    /\ storage.state = "json"
    /\ Len(storage.text) = Len(notes)
    /\ Len(notes) >= 1

C11_EditDraftFrame ==
    [][/\ \A v \in Titles :
             EditTitle(v) =>
                /\ activeNote'.title = v
                /\ activeNote'.content = activeNote.content
                /\ activeNote'.id = activeNote.id
                /\ activeNote'.createdAt = activeNote.createdAt
                /\ notes' = notes /\ storage' = storage /\ isEditing'
       /\ \A v \in Contents :
             EditContent(v) =>
                /\ activeNote'.content = v
                /\ activeNote'.title = activeNote.title
                /\ activeNote'.id = activeNote.id
                /\ activeNote'.createdAt = activeNote.createdAt
                /\ notes' = notes /\ storage' = storage /\ isEditing']_vars

C11_Witness ==
    /\ lastOp.op = "editDraft"
    /\ isEditing
    /\ activeNote # Null
    /\ activeNote.title = "T"
    /\ activeNote.content = "c"
    /\ Len(notes) >= 2
    /\ \A i \in DOMAIN notes : notes[i].title = "New Note" /\ notes[i].content = ""
    /\ storage = JSONstringify(notes)

\* C12: under create, select, beginEdit, editDraft, save, cancelEdit and
\* delete every entry that stays in the collection keeps the id and the
\* createdAt it was created with.
C12_IdCreatedAtImmutable ==
    [][/\ (\/ UpdateNote \/ CancelEdit \/ BeginEdit
           \/ \E i \in DOMAIN notes : SelectNote(i)
           \/ \E v \in Titles : EditTitle(v)
           \/ \E v \in Contents : EditContent(v)) =>
             /\ Len(notes') = Len(notes)
             /\ \A k \in DOMAIN notes :
                   /\ notes'[k].id = notes[k].id
                   /\ notes'[k].createdAt = notes[k].createdAt
       /\ CreateNewNote =>
             /\ Len(notes') = Len(notes) + 1
             /\ \A k \in DOMAIN notes :
                   /\ notes'[k + 1].id = notes[k].id
                   /\ notes'[k + 1].createdAt = notes[k].createdAt
       /\ \A i \in DOMAIN notes :
             DeleteNote(i) =>
                \A k \in DOMAIN notes' :
                   \E j \in DOMAIN notes :
                      /\ j >= k
                      /\ notes'[k].id = notes[j].id
                      /\ notes'[k].createdAt = notes[j].createdAt]_vars

\* C13: startup is total: every load ends idle, with the collection the slot
\* holds, and empty when the slot was absent or could not be deserialized.
C13_LoadTotal ==
    /\ pc = "idle"
    /\ storage.state = "json"
    /\ lastOp.op = "start" => storage = JSONstringify(notes)

\* C14: beginEdit happens only while viewing, and save, cancelEdit and
\* editDraft only while editing; beginEdit sets editing with the draft equal
\* to the committed entry of the active note and leaves the collection as it is.
C14_EditModeGuards ==
    [][/\ BeginEdit =>
             /\ activeNote # Null
             /\ ~isEditing
             /\ isEditing'
             /\ activeNote' = activeNote
             /\ \E i \in DOMAIN notes : notes[i] = activeNote'
             /\ notes' = notes
       /\ (\/ UpdateNote \/ CancelEdit
           \/ \E v \in Titles : EditTitle(v)
           \/ \E v \in Contents : EditContent(v)) =>
             (isEditing /\ activeNote # Null)]_vars

C14_Witness ==
    /\ lastOp.op = "beginEdit"
    /\ ~lastOp.dirty
    /\ isEditing
    /\ editBase = <<[notes |-> notes, edited |-> FALSE]>>
    /\ Len(notes) >= 2
    /\ \E i \in DOMAIN notes : i > 1 /\ notes[i] = activeNote

\* C15: whenever a note is active, the collection has an entry with its id.
C15_SelectionNotDangling ==
    activeNote # Null => \E i \in DOMAIN notes : notes[i].id = activeNote.id

\* The active note being edited was deleted and the selection moved on.
C15_Witness ==
    /\ lastOp.op = "delete"
    /\ lastOp.dirty
    /\ ~isEditing
    /\ activeNote # Null
    /\ activeNote = notes[1]

\* C16: whenever a note is active and not being edited, it equals an entry
\* of the committed collection in id, title, content and createdAt.
C16_ViewShowsCommitted ==
    (activeNote # Null /\ ~isEditing) => \E i \in DOMAIN notes : notes[i] = activeNote

\* A draft with unsaved changes was cancelled.
C16_Witness ==
    /\ lastOp.op = "cancelEdit"
    /\ lastOp.dirty
    /\ ~isEditing
    /\ activeNote # Null
    /\ activeNote.title = "New Note"
    /\ activeNote.content = ""

\* Two notes agree on id, title and content.
SameText(a, b) == a.id = b.id /\ a.title = b.title /\ a.content = b.content

\* The draft carries a title or content that no committed entry of its id has.
UnsavedChanges ==
    /\ isEditing
    /\ activeNote # Null
    /\ \A k \in DOMAIN notes : ~SameText(notes[k], activeNote)

\* C17: create over a draft with unsaved changes discards the draft: every
\* committed entry keeps its pre-edit value, the draft's text is written to
\* no entry of the collection or of the slot, and the new entry holds the
\* default title and content.
C17_CreateDiscardsDraft ==
    [][(CreateNewNote /\ UnsavedChanges) =>
          /\ Len(notes') = Len(notes) + 1
          /\ Len(storage'.text) = Len(notes')
          /\ \A k \in DOMAIN notes :
                /\ notes'[k + 1] = notes[k]
                /\ ~SameText(notes'[k + 1], activeNote)
                /\ storage'.text[k + 1] = NoteToJSON(notes[k])
                /\ ~SameText(storage'.text[k + 1], activeNote)
          /\ activeNote' = notes'[1]
          /\ notes'[1].title = "New Note" /\ notes'[1].content = ""
          /\ storage'.text[1].title = "New Note" /\ storage'.text[1].content = ""]_vars

C17_Witness ==
    /\ lastOp.op = "create"
    /\ lastOp.dirty
    /\ Len(notes) >= 2
    /\ \A k \in DOMAIN notes : notes[k].title = "New Note" /\ notes[k].content = ""
    /\ \E k \in DOMAIN notes : notes[k].id # notes[1].id
    /\ storage = JSONstringify(notes)

\* C18: save, cancelEdit, select and editDraft never add or remove an entry:
\* the collection keeps its length and the id at every position, so a note
\* deleted during an edit is not brought back by the save that follows, and
\* the saved draft is in the collection.
C18_NoResurrection ==
    [][/\ (\/ UpdateNote \/ CancelEdit
           \/ \E i \in DOMAIN notes : SelectNote(i)
           \/ \E v \in Titles : EditTitle(v)
           \/ \E v \in Contents : EditContent(v)) =>
             /\ Len(notes') = Len(notes)
             /\ \A k \in DOMAIN notes : notes'[k].id = notes[k].id
             /\ Len(storage'.text) = Len(notes)
       /\ UpdateNote => \E k \in DOMAIN notes' : notes'[k] = activeNote]_vars

\* A save that directly follows the deletion of another note.
C18_Witness ==
    /\ lastOp.op = "save"
    /\ lastOp.afterDelete
    /\ lastOp.dirty
    /\ Len(notes) >= 1
    /\ Len(notes) < MaxNotes
    /\ \E k \in DOMAIN notes : notes[k] = activeNote

====
